---- MODULE Spec2Model ----
(***************************************************************************)
(* Model of the media prioritization engine of MediaManager                *)
(* (class RandomizerService and its method randomize).                     *)
(*                                                                         *)
(* A MediaFile is modelled by the four fields the engine reads:            *)
(*   id, view_count, last_viewed, like_count.                              *)
(* last_viewed is `string | null`: null is the empty sequence Null, a      *)
(* timestamp t is the one-element sequence <<t>>, t standing for the t-th  *)
(* canonical ISO-8601 string in lexicographic (localeCompare) order.       *)
(*                                                                         *)
(* Further sections model the calls of MediaService that change the        *)
(* ratings and the view history, the calls of PlaylistService that change  *)
(* a playlist's entries, and FileSystemService.scan.                       *)
(***************************************************************************)
EXTENDS Integers, Sequences, FiniteSets, TLC

\* ------------------------------------------------------------------ bounds
MaxLen == 3
MaxView == 1
MaxLike == 1
MaxDislike == 2
MaxTime == 2

\* ------------------------------------------------------------- data model
Null == <<>>

Timestamps == {<<t>> : t \in 1..MaxTime}

LastViewedValues == {Null} \cup Timestamps

ViewCounts == 0..MaxView

LikeCounts == (0 - MaxDislike)..MaxLike

\* The six names of PrioritizationAlgorithm.
Algorithms ==
  {"random", "unviewed_first", "least_viewed", "most_liked", "most_viewed", "oldest_first"}

\* What a caller can pass at run time: the six names, or a name outside the union
\* (the test suite passes "invalid_algorithm" under @ts-expect-error).
AlgorithmArgs == Algorithms \cup {"invalid_algorithm"}

\* The record at position i of a candidate sequence carries id 100 * i, so ids are
\* pairwise distinct and differ from every position and every idx.
MediaFile(i, v, t, l) == [id |-> 100 * i, view_count |-> v, last_viewed |-> t, like_count |-> l]

MediaFileSeqs ==
  UNION {
    {[i \in 1..n |-> MediaFile(i, f[i][1], f[i][2], f[i][3])] :
       f \in [1..n -> ViewCounts \X LastViewedValues \X LikeCounts]}
    : n \in 0..MaxLen}

\* ---------------------------------------------------------------- helpers
\* The elements of s: the values a comparator is applied to.
Elements(s) == {s[i] : i \in 1..Len(s)}

\* Mutant of Swap: the second assignment of the exchange is lost.
SwapOverwrite(s, i, j) == [s EXCEPT ![i] = s[j]]

\* Swap of positions i and j (1-based) of s: [s[i], s[j]] = [s[j], s[i]].
Swap(s, i, j) == [s EXCEPT ![i] = s[j], ![j] = s[i]]

\* ---------------------------------------------------------- shuffleRandom
\* The draws of one shuffle of n elements: for each loop index i = n-1 .. 1
\* (0-based) the value j = floor(Math.random() * (i + 1)), any of 0..i.
\* A draw sequence is indexed by the 0-based loop index i, stored at i.
Draws(n) == [1..(n - 1) -> 0..(n - 1)]

\* Mutant of ValidDraws: j = floor(Math.random() * length) at every index.
ValidDrawsFullRange(n) == Draws(n)

ValidDraws(n) == {d \in Draws(n) : \A i \in 1..(n - 1) : d[i] <= i}

RECURSIVE ShuffleLoop(_, _, _)
\* The loop `for (i = length-1; i > 0; i--)` from 0-based index i downwards.
ShuffleLoop(s, d, i) ==
  IF i <= 0 THEN s
  ELSE ShuffleLoop(Swap(s, i + 1, d[i] + 1), d, i - 1)

ShuffleWith(s, d) == ShuffleLoop(s, d, Len(s) - 1)

\* Every array shuffleRandom can return on s.
shuffleRandom(s) == {ShuffleWith(s, d) : d \in ValidDraws(Len(s))}

\* ------------------------------------------------------------ compareDates
Sign(x) == IF x < 0 THEN 0 - 1 ELSE IF x > 0 THEN 1 ELSE 0

\* String.prototype.localeCompare on two canonical timestamps.
localeCompare(a, b) == Sign(a[1] - b[1])

compareDates(a, b) ==
  IF a = Null /\ b = Null THEN 0
  ELSE IF a = Null THEN 0 - 1
  ELSE IF b = Null THEN 1
  ELSE localeCompare(a, b)

\* ------------------------------------------------- Array.prototype.sort
\* The engine's sort is stable (ECMAScript 2019) and every comparator passed to it
\* is a consistent weak order, so the result is the one stable arrangement: the
\* element at input position k lands after every element that compares below it
\* and after every equal element that precedes it in the input.
\* A comparator (a, b) => number is the function cmp, defined on the elements.
sort(s, cmp) ==
  LET n == Len(s)
      rank(k) == 1 + Cardinality({m \in 1..n :
                        \/ cmp[s[m], s[k]] < 0
                        \/ (cmp[s[m], s[k]] = 0 /\ m < k)})
  IN [i \in 1..n |-> s[CHOOSE k \in 1..n : rank(k) = i]]

\* ------------------------------------------------- sortWithTieBreaker
\* media.view_count || media.like_count || 0 : the first operand that is not 0.
getPrimaryKey(media) ==
  IF media.view_count # 0 THEN media.view_count
  ELSE IF media.like_count # 0 THEN media.like_count
  ELSE 0

\* media.last_viewed || "null" : <<0>> stands for the string "null", which is no
\* timestamp.
getSecondaryKey(media) ==
  IF media.last_viewed # Null THEN media.last_viewed ELSE <<0>>

\* The Map key `${primaryKey}-${secondaryKey}`: the text is the decimal number, a
\* dash and the secondary text, from which both parts can be read back, so the
\* key is modelled by the pair.
finalGroupKey(media) == <<getPrimaryKey(media), getSecondaryKey(media)>>

\* finalGroups: a Map keeps its keys in the order of first insertion; each value
\* lists the elements with that key in the order of sortedGroups.
finalGroups(sortedGroups) ==
  LET n == Len(sortedGroups)
      first == {i \in 1..n :
                  \A j \in 1..(i - 1) :
                    finalGroupKey(sortedGroups[j]) # finalGroupKey(sortedGroups[i])}
      nth(g) == CHOOSE i \in first : Cardinality({j \in first : j < i}) = g - 1
  IN [g \in 1..Cardinality(first) |->
        SelectSeq(sortedGroups,
                  LAMBDA m : finalGroupKey(m) = finalGroupKey(sortedGroups[nth(g)]))]

RECURSIVE ShuffleEach(_)
\* `for (group of finalGroups) result.push(...shuffleRandom(group))`: every array
\* the loop can build.
ShuffleEach(groups) ==
  IF groups = <<>> THEN {<<>>}
  ELSE {h \o t : h \in shuffleRandom(Head(groups)), t \in ShuffleEach(Tail(groups))}

\* The first Map of the function (`groups`) is filled and never read; it has no
\* effect on the result and is left out.
sortWithTieBreaker(s, primaryComparator, secondaryComparator) ==
  LET sortedGroups ==
        sort(s, [a, b \in Elements(s) |->
                  IF primaryComparator[a, b] # 0 THEN primaryComparator[a, b]
                  ELSE secondaryComparator[a, b]])
  IN ShuffleEach(finalGroups(sortedGroups))

\* ------------------------------------------------------------ strategies
\* Mutant of prioritizeUnviewed: the two buckets are not separated.
prioritizeUnviewedMixed(s) == shuffleRandom(s)

\* Mutant of prioritizeUnviewed: only the never-viewed bucket is shuffled.
prioritizeUnviewedViewedKept(s) ==
  LET unviewed == SelectSeq(s, LAMBDA m : m.last_viewed = Null)
      viewed == SelectSeq(s, LAMBDA m : m.last_viewed # Null)
  IN {u \o viewed : u \in shuffleRandom(unviewed)}

prioritizeUnviewed(s) ==
  LET unviewed == SelectSeq(s, LAMBDA m : m.last_viewed = Null)
      viewed == SelectSeq(s, LAMBDA m : m.last_viewed # Null)
  IN {u \o v : u \in shuffleRandom(unviewed), v \in shuffleRandom(viewed)}

prioritizeLeastViewed(s) ==
  sortWithTieBreaker(s,
    [a, b \in Elements(s) |-> a.view_count - b.view_count],
    [a, b \in Elements(s) |-> compareDates(a.last_viewed, b.last_viewed)])

prioritizeMostLiked(s) ==
  sortWithTieBreaker(s,
    [a, b \in Elements(s) |-> b.like_count - a.like_count],
    [a, b \in Elements(s) |-> a.view_count - b.view_count])

prioritizeMostViewed(s) ==
  sortWithTieBreaker(s,
    [a, b \in Elements(s) |-> b.view_count - a.view_count],
    [a, b \in Elements(s) |-> 0 - compareDates(a.last_viewed, b.last_viewed)])

\* Mutant of prioritizeOldestFirst: the viewed bucket is shuffled, not sorted.
prioritizeOldestFirstShuffled(s) ==
  LET neverViewed == SelectSeq(s, LAMBDA m : m.last_viewed = Null)
      viewed == SelectSeq(s, LAMBDA m : m.last_viewed # Null)
  IN {u \o v : u \in shuffleRandom(neverViewed), v \in shuffleRandom(viewed)}

prioritizeOldestFirst(s) ==
  LET neverViewed == SelectSeq(s, LAMBDA m : m.last_viewed = Null)
      viewed == SelectSeq(s, LAMBDA m : m.last_viewed # Null)
      sortedViewed ==
        sort(viewed, [a, b \in Elements(viewed) |-> compareDates(a.last_viewed, b.last_viewed)])
  IN {u \o sortedViewed : u \in shuffleRandom(neverViewed)}

\* The switch of randomize over the six names: every sortedMedia it can compute.
applyAlgorithm(alg, s) ==
  CASE alg = "random" -> shuffleRandom(s)
    [] alg = "unviewed_first" -> prioritizeUnviewed(s)
    [] alg = "least_viewed" -> prioritizeLeastViewed(s)
    [] alg = "most_liked" -> prioritizeMostLiked(s)
    [] alg = "most_viewed" -> prioritizeMostViewed(s)
    [] alg = "oldest_first" -> prioritizeOldestFirst(s)

\* ---------------------------------------------------------------- randomize
\* Mutant of notDisliked: only the conventional dislike value -1 is recognised.
notDislikedOnlyMinusOne(media) == media.like_count # 0 - 1

\* Mutant of notDisliked: the threshold is off by one.
notDislikedOffByOne(media) == media.like_count >= 0 - 1

\* The predicate of the dislike filter.
notDisliked(media) == media.like_count >= 0

\* Mutant of filterDisliked: the flag is ignored and the filter always runs.
filterDislikedAlways(files, exclude) == SelectSeq(files, notDisliked)

\* excludeDisliked ? mediaFiles.filter(like_count >= 0) : [...mediaFiles]
filterDisliked(files, exclude) ==
  IF exclude THEN SelectSeq(files, notDisliked) ELSE files

\* Mutant of mapResult: idx counts from 1.
mapResultOneBased(sortedMedia) ==
  [k \in 1..Len(sortedMedia) |-> [id |-> sortedMedia[k].id, idx |-> k]]

\* sortedMedia.map((media, idx) => ({id: media.id, idx})): idx is the 0-based
\* array index.
mapResult(sortedMedia) ==
  [k \in 1..Len(sortedMedia) |-> [id |-> sortedMedia[k].id, idx |-> k - 1]]

VARIABLES
  mediaFiles,       \* the caller's candidate sequence, passed as first argument
  algorithm,        \* argument: the strategy name ("" before the call)
  excludeDisliked,  \* argument: the dislike-exclusion flag
  pc,               \* position of the call: "idle", "filtered", "returned", "threw"
  filteredMedia,    \* local of randomize once the filter has run
  sortedMedia,      \* local of randomize once a strategy has run
  result,           \* the returned array
  error,            \* the thrown Error: <<>> when none, else <<message prefix, name>>
  frames,           \* two callers of the shared instance: each caller's arguments,
                    \* position, returned array and thrown Error
  locals,           \* the storage of the locals filteredMedia and sortedMedia
  overlap,          \* history: a call was entered while the other one was under way
  passed,           \* the optional arguments as the caller wrote them, when the
                    \* call may leave them out: <<algorithm, excludeDisliked>>
  media,            \* table MediaFiles: id -> row
  viewHistory,      \* table ViewHistory: media_id -> number of its rows
  selected,         \* the local media of the last MediaService call: what its
                    \* SELECT returned, <<row>> or <<>>
  response,         \* the last MediaService call and the ApiResponse it returned
  lastRating,       \* history: id -> the last successful rating call on it
  playlistMediaOrder,  \* table PlaylistMediaOrder: a set of rows
  playlistCall,     \* the last PlaylistService call and how it ended
  directory,        \* the directory tree that is scanned; it does not change
  scans             \* history: the calls of FileSystemService.scan made so far,
                    \* each with its option, its ScanResult and the rows after it

callVars == <<mediaFiles, algorithm, excludeDisliked, pc, filteredMedia, sortedMedia, result, error>>

concurrentVars == <<frames, locals, overlap>>

mediaVars == <<media, viewHistory, selected, response, lastRating>>

playlistVars == <<playlistMediaOrder, playlistCall>>

scanVars == <<directory, scans>>

vars == <<callVars, concurrentVars, passed, mediaVars, playlistVars, scanVars>>

\* The state of the services other than the randomizer.
outsideRandomizer == <<mediaVars, playlistVars, scanVars>>

\* What the steps of one explicit call leave alone.
outsideCall == <<concurrentVars, passed, outsideRandomizer>>

\* What the steps of the two callers leave alone.
outsideConcurrent == <<callVars, passed, outsideRandomizer>>

\* What the calls of MediaService leave alone.
outsideMedia == <<callVars, concurrentVars, passed, playlistVars, scanVars>>

\* What the calls of PlaylistService leave alone.
outsidePlaylists == <<callVars, concurrentVars, passed, mediaVars, scanVars>>

\* What FileSystemService.scan leaves alone.
outsideScan ==
  <<callVars, concurrentVars, passed, playlistVars,
    viewHistory, selected, response, lastRating>>

\* No call of randomize is made.
NoCall ==
  /\ mediaFiles = <<>>
  /\ algorithm = ""
  /\ excludeDisliked = TRUE
  /\ pc = "idle"
  /\ filteredMedia = <<>>
  /\ sortedMedia = <<>>
  /\ result = <<>>
  /\ error = <<>>
  /\ passed = <<>>

NoConcurrent ==
  /\ frames = <<>>
  /\ locals = <<>>
  /\ overlap = FALSE

\* The database is not used.
NoMedia ==
  /\ media = <<>>
  /\ viewHistory = <<>>
  /\ selected = <<>>
  /\ response = <<>>
  /\ lastRating = <<>>

NoPlaylists ==
  /\ playlistMediaOrder = {}
  /\ playlistCall = <<>>

NoScan ==
  /\ directory = <<>>
  /\ scans = <<>>

args == <<mediaFiles, algorithm, excludeDisliked>>

\* Before the call: the caller holds some candidate sequence.
Init ==
  /\ mediaFiles \in MediaFileSeqs
  /\ algorithm = ""
  /\ excludeDisliked = TRUE
  /\ pc = "idle"
  /\ filteredMedia = <<>>
  /\ sortedMedia = <<>>
  /\ result = <<>>
  /\ error = <<>>
  /\ frames = <<>>
  /\ locals = <<>>
  /\ overlap = FALSE
  /\ passed = <<>>
  /\ NoMedia
  /\ NoPlaylists
  /\ NoScan

\* Mutant of FilterStep: the disliked records are removed from the caller's array
\* in place and the filtered local is that same array.
FilterStepInPlace(alg, exclude) ==
  /\ pc = "idle"
  /\ algorithm' = alg
  /\ excludeDisliked' = exclude
  /\ filteredMedia' = filterDisliked(mediaFiles, exclude)
  /\ mediaFiles' = filterDisliked(mediaFiles, exclude)
  /\ pc' = "filtered"
  /\ UNCHANGED <<sortedMedia, result, error, outsideCall>>

\* Lines 567-579: randomize is entered with a strategy name and a flag, and the
\* first statement of its try block filters the candidates.
FilterStep(alg, exclude) ==
  /\ pc = "idle"
  /\ algorithm' = alg
  /\ excludeDisliked' = exclude
  /\ filteredMedia' = filterDisliked(mediaFiles, exclude)
  /\ pc' = "filtered"
  /\ UNCHANGED <<mediaFiles, sortedMedia, result, error, outsideCall>>

\* Lines 581-584: nothing left after the filter, return [].
ReturnEmpty ==
  /\ pc = "filtered"
  /\ Len(filteredMedia) = 0
  /\ result' = <<>>
  /\ pc' = "returned"
  /\ UNCHANGED <<args, filteredMedia, sortedMedia, error, outsideCall>>

\* Lines 588-619: a named strategy runs, the result is mapped and returned.
RankStep ==
  /\ pc = "filtered"
  /\ Len(filteredMedia) # 0
  /\ algorithm \in Algorithms
  /\ \E out \in applyAlgorithm(algorithm, filteredMedia) :
       /\ sortedMedia' = out
       /\ result' = mapResult(out)
  /\ pc' = "returned"
  /\ UNCHANGED <<args, filteredMedia, error, outsideCall>>

\* Lines 607-609 and 620-623: the default branch throws, the catch rethrows.
ThrowUnknown ==
  /\ pc = "filtered"
  /\ Len(filteredMedia) # 0
  /\ algorithm \notin Algorithms
  /\ error' = <<"Unknown prioritization algorithm", algorithm>>
  /\ pc' = "threw"
  /\ UNCHANGED <<args, filteredMedia, sortedMedia, result, outsideCall>>

Next ==
  \/ \E alg \in AlgorithmArgs, exclude \in BOOLEAN : FilterStep(alg, exclude)
  \/ ReturnEmpty
  \/ RankStep
  \/ ThrowUnknown

Spec == Init /\ [][Next]_vars

\* ------------------------------------------- calls that omit arguments
\* An optional argument is written <<value>> when the caller gives it and
\* Undefined when the caller leaves it out (or passes undefined).
Undefined == <<>>

Given(values) == {<<v>> : v \in values}

\* Line 569: algorithm: PrioritizationAlgorithm = "random".
DefaultAlgorithm == "random"

\* Mutant of DefaultExcludeDisliked: disliked records are kept by default.
DefaultExcludeDislikedOff == FALSE

\* Line 570: excludeDisliked: boolean = true.
DefaultExcludeDisliked == TRUE

\* A default parameter value replaces an argument that is undefined.
defaultTo(given, default) == IF Len(given) = 0 THEN default ELSE given[1]

\* Lines 567-579, entered with either optional argument given or left out.
FilterStepDefaulted(alg, exclude) ==
  /\ pc = "idle"
  /\ passed' = <<alg, exclude>>
  /\ algorithm' = defaultTo(alg, DefaultAlgorithm)
  /\ excludeDisliked' = defaultTo(exclude, DefaultExcludeDisliked)
  /\ filteredMedia' =
       filterDisliked(mediaFiles, defaultTo(exclude, DefaultExcludeDisliked))
  /\ pc' = "filtered"
  /\ UNCHANGED <<mediaFiles, sortedMedia, result, error, concurrentVars, outsideRandomizer>>

NextDefaulted ==
  \/ \E alg \in Given(AlgorithmArgs) \cup {Undefined},
        exclude \in Given(BOOLEAN) \cup {Undefined} :
       FilterStepDefaulted(alg, exclude)
  \/ ReturnEmpty
  \/ RankStep
  \/ ThrowUnknown

SpecDefaulted == Init /\ [][NextDefaulted]_vars

\* ------------------------------------- two calls on the exported instance
\* Line 779 exports one RandomizerService for every caller. Two callers each
\* make one call; the steps of the two calls are taken in any order.
MaxConcLen == 2

Callers == {1, 2}

\* Caller c passes records of its own: ids 100 * i + c.
CallerInputs(c) ==
  UNION {
    {[i \in 1..n |-> [MediaFile(i, 0, f[i][1], f[i][2]) EXCEPT !.id = @ + c]] :
       f \in [1..n -> {Null, <<1>>} \X {0 - 1, 0}]}
    : n \in 0..MaxConcLen}

\* Mutant of slot: filteredMedia and sortedMedia are fields of the instance, one
\* storage for every call.
slotShared(c) == 1

\* Lines 577 and 586: filteredMedia and sortedMedia are declared with let inside
\* randomize, and the class declares no field: every call has bindings of its own.
slot(c) == c

idleFrame(s) ==
  [mediaFiles |-> s, algorithm |-> "", excludeDisliked |-> TRUE,
   pc |-> "idle", result |-> <<>>, error |-> <<>>]

InitConcurrent ==
  /\ \E s1 \in CallerInputs(1), s2 \in CallerInputs(2) :
       frames = [c \in Callers |-> IF c = 1 THEN idleFrame(s1) ELSE idleFrame(s2)]
  /\ locals = [c \in Callers |-> [filteredMedia |-> <<>>, sortedMedia |-> <<>>]]
  /\ overlap = FALSE
  /\ NoCall
  /\ NoMedia
  /\ NoPlaylists
  /\ NoScan

\* Lines 567-579 for caller c.
FilterStepOf(c, alg, exclude) ==
  /\ frames[c].pc = "idle"
  /\ frames' = [frames EXCEPT ![c].algorithm = alg,
                              ![c].excludeDisliked = exclude,
                              ![c].pc = "filtered"]
  /\ locals' = [locals EXCEPT ![slot(c)].filteredMedia =
                                filterDisliked(frames[c].mediaFiles, exclude)]
  /\ overlap' = (overlap \/ \E d \in Callers \ {c} : frames[d].pc = "filtered")
  /\ UNCHANGED outsideConcurrent

\* Lines 581-584 for caller c.
ReturnEmptyOf(c) ==
  /\ frames[c].pc = "filtered"
  /\ Len(locals[slot(c)].filteredMedia) = 0
  /\ frames' = [frames EXCEPT ![c].result = <<>>, ![c].pc = "returned"]
  /\ UNCHANGED <<locals, overlap, outsideConcurrent>>

\* Lines 588-619 for caller c.
RankStepOf(c) ==
  /\ frames[c].pc = "filtered"
  /\ Len(locals[slot(c)].filteredMedia) # 0
  /\ frames[c].algorithm \in Algorithms
  /\ \E out \in applyAlgorithm(frames[c].algorithm, locals[slot(c)].filteredMedia) :
       /\ locals' = [locals EXCEPT ![slot(c)].sortedMedia = out]
       /\ frames' = [frames EXCEPT ![c].result = mapResult(out), ![c].pc = "returned"]
  /\ UNCHANGED <<overlap, outsideConcurrent>>

\* Lines 607-609 and 620-623 for caller c.
ThrowUnknownOf(c) ==
  /\ frames[c].pc = "filtered"
  /\ Len(locals[slot(c)].filteredMedia) # 0
  /\ frames[c].algorithm \notin Algorithms
  /\ frames' = [frames EXCEPT ![c].error = <<"Unknown prioritization algorithm", frames[c].algorithm>>,
                              ![c].pc = "threw"]
  /\ UNCHANGED <<locals, overlap, outsideConcurrent>>

NextConcurrent ==
  \E c \in Callers :
    \/ \E alg \in AlgorithmArgs, exclude \in BOOLEAN : FilterStepOf(c, alg, exclude)
    \/ ReturnEmptyOf(c)
    \/ RankStepOf(c)
    \/ ThrowUnknownOf(c)

SpecConcurrent == InitConcurrent /\ [][NextConcurrent]_vars

\* ------------------------------------------------- MediaService: ratings and views
\* The calls of MediaService on the tables MediaFiles and ViewHistory. Each call
\* is one synchronous handler; any of its SQL statements may throw, which its
\* catch block turns into a 500 response.
MaxRows == 2

MaxViewings == 2

MaxLikings == 2

MediaIds == 1..MaxRows

\* The ids a caller can ask for: those of the rows and one that has no row.
RequestIds == 1..(MaxRows + 1)

\* A row as the file scan inserts it: view_count 0, last_viewed null,
\* like_count 0.
newRow(id, deleted) ==
  [id |-> id, view_count |-> 0, last_viewed |-> Null, like_count |-> 0,
   is_deleted |-> deleted]

\* The tables after a scan: every row new, some of them marked deleted.
FreshMedia ==
  /\ \E deleted \in [MediaIds -> BOOLEAN] :
       media = [id \in MediaIds |-> newRow(id, deleted[id])]
  /\ viewHistory = [id \in MediaIds |-> 0]
  /\ selected = <<>>
  /\ response = [op |-> "none", id |-> 0, status |-> 0, data |-> 0]
  /\ lastRating = [id \in MediaIds |-> "none"]

InitMedia ==
  /\ FreshMedia
  /\ NoCall
  /\ NoConcurrent
  /\ NoPlaylists
  /\ NoScan

\* SELECT * FROM MediaFiles WHERE id = ? AND is_deleted = 0.
queryOne(id) ==
  IF id \in DOMAIN media /\ ~media[id].is_deleted THEN <<media[id]>> ELSE <<>>

ApiResponse(op, id, status, data) ==
  [op |-> op, id |-> id, status |-> status, data |-> data]

\* CURRENT_TIMESTAMP does not run backwards.
notBefore(now, last) == IF last = Null THEN TRUE ELSE now[1] >= last[1]

\* Lines 188-238. thrownAt is the statement that throws: 0 none, 1 the SELECT,
\* 2 the UPDATE, 3 the INSERT.
incrementViewCount(id, thrownAt, now) ==
  /\ UNCHANGED <<lastRating, outsideMedia>>
  /\ LET found == queryOne(id)
         op == "incrementViewCount"
     IN  /\ IF thrownAt = 1
              THEN /\ selected' = <<>>
                   /\ response' = ApiResponse(op, id, 500, 0)
                   /\ UNCHANGED <<media, viewHistory>>
              ELSE /\ selected' = found
                   /\ IF found = <<>>
                        THEN /\ thrownAt = 0
                             /\ response' = ApiResponse(op, id, 404, 0)
                             /\ UNCHANGED <<media, viewHistory>>
                        ELSE IF thrownAt = 2
                          THEN /\ response' = ApiResponse(op, id, 500, 0)
                               /\ UNCHANGED <<media, viewHistory>>
                          ELSE /\ media[id].view_count < MaxViewings
                               /\ notBefore(now, media[id].last_viewed)
                               /\ media' = [media EXCEPT ![id].view_count = @ + 1,
                                                         ![id].last_viewed = now]
                               /\ IF thrownAt = 3
                                    THEN /\ response' = ApiResponse(op, id, 500, 0)
                                         /\ UNCHANGED viewHistory
                                    ELSE /\ viewHistory' = [viewHistory EXCEPT ![id] = @ + 1]
                                         /\ response' =
                                              ApiResponse(op, id, 200, found[1].view_count + 1)

\* Mutant of incrementLikeCount: a like does not lift a dislike.
incrementLikeCountKeepsDislike(id, thrownAt) ==
  /\ UNCHANGED <<viewHistory, outsideMedia>>
  /\ LET found == queryOne(id)
         op == "incrementLikeCount"
     IN  /\ found # <<>>
         /\ thrownAt = 0
         /\ found[1].like_count < MaxLikings
         /\ selected' = found
         /\ media' = [media EXCEPT ![id].like_count =
                                     IF @ < 0 THEN @ ELSE @ + 1]
         /\ response' = ApiResponse(op, id, 200, media'[id].like_count)
         /\ lastRating' = [lastRating EXCEPT ![id] = "like"]

\* Lines 243-289. thrownAt: 0 none, 1 the SELECT, 2 the UPDATE.
incrementLikeCount(id, thrownAt) ==
  /\ UNCHANGED <<viewHistory, outsideMedia>>
  /\ LET found == queryOne(id)
         op == "incrementLikeCount"
     IN  /\ IF thrownAt = 1
              THEN /\ selected' = <<>>
                   /\ response' = ApiResponse(op, id, 500, 0)
                   /\ UNCHANGED <<media, lastRating>>
              ELSE /\ selected' = found
                   /\ IF found = <<>>
                        THEN /\ thrownAt = 0
                             /\ response' = ApiResponse(op, id, 404, 0)
                             /\ UNCHANGED <<media, lastRating>>
                        ELSE /\ found[1].like_count < MaxLikings
                             /\ IF thrownAt = 2
                                  THEN /\ response' = ApiResponse(op, id, 500, 0)
                                       /\ UNCHANGED <<media, lastRating>>
                                  ELSE /\ media' = [media EXCEPT ![id].like_count =
                                                                   found[1].like_count + 1]
                                       /\ response' =
                                            ApiResponse(op, id, 200, found[1].like_count + 1)
                                       /\ lastRating' = [lastRating EXCEPT ![id] = "like"]

\* Mutant of setDislike: the rating is lowered by one.
setDislikeDecrements(id, thrownAt) ==
  /\ UNCHANGED <<viewHistory, outsideMedia>>
  /\ LET found == queryOne(id)
         op == "setDislike"
     IN  /\ found # <<>>
         /\ thrownAt = 0
         /\ selected' = found
         /\ media' = [media EXCEPT ![id].like_count = @ - 1]
         /\ response' = ApiResponse(op, id, 200, media'[id].like_count)
         /\ lastRating' = [lastRating EXCEPT ![id] = "dislike"]

\* Lines 294-339. thrownAt: 0 none, 1 the SELECT, 2 the UPDATE.
setDislike(id, thrownAt) ==
  /\ UNCHANGED <<viewHistory, outsideMedia>>
  /\ LET found == queryOne(id)
         op == "setDislike"
     IN  /\ IF thrownAt = 1
              THEN /\ selected' = <<>>
                   /\ response' = ApiResponse(op, id, 500, 0)
                   /\ UNCHANGED <<media, lastRating>>
              ELSE /\ selected' = found
                   /\ IF found = <<>>
                        THEN /\ thrownAt = 0
                             /\ response' = ApiResponse(op, id, 404, 0)
                             /\ UNCHANGED <<media, lastRating>>
                        ELSE IF thrownAt = 2
                          THEN /\ response' = ApiResponse(op, id, 500, 0)
                               /\ UNCHANGED <<media, lastRating>>
                          ELSE /\ media' = [media EXCEPT ![id].like_count = 0 - 1]
                               /\ response' = ApiResponse(op, id, 200, 0 - 1)
                               /\ lastRating' = [lastRating EXCEPT ![id] = "dislike"]

NextMedia ==
  \E id \in RequestIds :
    \/ \E thrownAt \in 0..3, now \in Timestamps : incrementViewCount(id, thrownAt, now)
    \/ \E thrownAt \in 0..2 : incrementLikeCount(id, thrownAt)
    \/ \E thrownAt \in 0..2 : setDislike(id, thrownAt)

SpecMedia == InitMedia /\ [][NextMedia]_vars

\* ------------------------------------------------ PlaylistService: entries
\* The calls of PlaylistService on the table PlaylistMediaOrder, whose rows are
\* [playlist_id, media_id, sort_order]. A call either returns or throws.
MaxPlaylists == 2

MaxOrder == 2

MaxReorder == 2

PlaylistIds == 1..MaxPlaylists

\* The playlist ids a caller can ask for: the playlists and one that is missing.
PlaylistRequestIds == 1..(MaxPlaylists + 1)

\* The mediaIds lists a caller can pass to reorderPlaylistMedia.
MediaIdLists == UNION {[1..n -> RequestIds] : n \in 0..MaxReorder}

OrderRow(playlistId, mediaId, sortOrder) ==
  [playlist_id |-> playlistId, media_id |-> mediaId, sort_order |-> sortOrder]

entriesOf(table, playlistId) == {r \in table : r.playlist_id = playlistId}

\* Mutant of violatesConstraint: the table has its foreign keys but neither
\* UNIQUE constraint.
violatesForeignKeyOnly(table, row) ==
  \/ row.playlist_id \notin PlaylistIds
  \/ row.media_id \notin DOMAIN media

\* sqlService.ts 281-299: the foreign keys (enforced, foreign_keys = ON) and
\* UNIQUE(playlist_id, media_id), UNIQUE(playlist_id, sort_order).
violatesConstraint(table, row) ==
  \/ row.playlist_id \notin PlaylistIds
  \/ row.media_id \notin DOMAIN media
  \/ \E r \in entriesOf(table, row.playlist_id) : r.media_id = row.media_id
  \/ \E r \in entriesOf(table, row.playlist_id) : r.sort_order = row.sort_order

DeleteStatement(playlistId) ==
  [sql |-> "DELETE", params |-> <<playlistId>>]

InsertStatement(playlistId, mediaId, sortOrder) ==
  [sql |-> "INSERT", params |-> <<playlistId, mediaId, sortOrder>>]

\* SqlService.execute on the table: the table after the statement, or a throw
\* (the statement fails by itself, or the INSERT breaks a constraint).
execute(table, stmt, fails) ==
  IF fails
    THEN [threw |-> TRUE, table |-> table]
    ELSE IF stmt.sql = "DELETE"
      THEN [threw |-> FALSE, table |-> table \ entriesOf(table, stmt.params[1])]
      ELSE LET row == OrderRow(stmt.params[1], stmt.params[2], stmt.params[3])
           IN  IF violatesConstraint(table, row)
                 THEN [threw |-> TRUE, table |-> table]
                 ELSE [threw |-> FALSE, table |-> table \cup {row}]

\* The loop of executeMany from statement k on; thrownAt is the statement that
\* fails by itself (none when it is not an index).
RECURSIVE runStatements(_, _, _, _)
runStatements(table, statements, k, thrownAt) ==
  IF k > Len(statements)
    THEN [threw |-> FALSE, table |-> table]
    ELSE LET r == execute(table, statements[k], thrownAt = k)
         IN  IF r.threw THEN r ELSE runStatements(r.table, statements, k + 1, thrownAt)

\* Mutant of executeMany: the statements run one by one outside a transaction.
executeManyNoTransaction(table, statements, thrownAt) ==
  runStatements(table, statements, 1, thrownAt)

\* SqlService.executeMany: the loop runs inside db.transaction, which rolls back
\* when the loop throws.
executeMany(table, statements, thrownAt) ==
  LET r == runStatements(table, statements, 1, thrownAt)
  IN  IF r.threw THEN [threw |-> TRUE, table |-> table] ELSE r

PlaylistCall(op, playlistId, mediaIds, outcome) ==
  [op |-> op, playlistId |-> playlistId, mediaIds |-> mediaIds, outcome |-> outcome]

InitPlaylists ==
  /\ playlistMediaOrder = {}
  /\ playlistCall = PlaylistCall("none", 0, <<>>, "none")
  /\ FreshMedia
  /\ NoCall
  /\ NoConcurrent
  /\ NoScan

\* SELECT MAX(sort_order) ... ?? -1, plus 1.
nextOrder(table, playlistId) ==
  IF entriesOf(table, playlistId) = {}
    THEN 0
    ELSE 1 + CHOOSE m \in {r.sort_order : r \in entriesOf(table, playlistId)} :
               \A r \in entriesOf(table, playlistId) : r.sort_order <= m

\* playlistService.ts 207-260. fails: one of the statements fails by itself.
addMediaToPlaylist(playlistId, mediaId, fails) ==
  /\ UNCHANGED outsidePlaylists
  /\ nextOrder(playlistMediaOrder, playlistId) <= MaxOrder
  /\ LET op == "addMediaToPlaylist"
         row == OrderRow(playlistId, mediaId, nextOrder(playlistMediaOrder, playlistId))
         r == execute(playlistMediaOrder,
                      InsertStatement(playlistId, mediaId, row.sort_order), fails)
     IN  IF \/ playlistId \notin PlaylistIds
            \/ queryOne(mediaId) = <<>>
            \/ \E e \in entriesOf(playlistMediaOrder, playlistId) : e.media_id = mediaId
           THEN /\ playlistCall' = PlaylistCall(op, playlistId, <<mediaId>>, "threw")
                /\ UNCHANGED playlistMediaOrder
           ELSE /\ playlistMediaOrder' = r.table
                /\ playlistCall' =
                     PlaylistCall(op, playlistId, <<mediaId>>,
                                  IF r.threw THEN "threw" ELSE "returned")

\* playlistService.ts 265-293.
removeMediaFromPlaylist(playlistId, mediaId, fails) ==
  /\ UNCHANGED outsidePlaylists
  /\ LET op == "removeMediaFromPlaylist"
     IN  IF \/ fails
            \/ ~\E e \in entriesOf(playlistMediaOrder, playlistId) : e.media_id = mediaId
           THEN /\ playlistCall' = PlaylistCall(op, playlistId, <<mediaId>>, "threw")
                /\ UNCHANGED playlistMediaOrder
           ELSE /\ playlistMediaOrder' =
                     {e \in playlistMediaOrder :
                        ~(e.playlist_id = playlistId /\ e.media_id = mediaId)}
                /\ playlistCall' = PlaylistCall(op, playlistId, <<mediaId>>, "returned")

\* playlistService.ts 298-336. thrownAt is the statement of the transaction that
\* fails by itself: 0 none, 1 the DELETE, 1 + i the i-th INSERT.
reorderPlaylistMedia(playlistId, mediaIds, thrownAt) ==
  /\ UNCHANGED outsidePlaylists
  /\ thrownAt <= 1 + Len(mediaIds)
  /\ LET op == "reorderPlaylistMedia"
         statements ==
           <<DeleteStatement(playlistId)>>
             \o [i \in 1..Len(mediaIds) |-> InsertStatement(playlistId, mediaIds[i], i - 1)]
         r == executeMany(playlistMediaOrder, statements, thrownAt)
     IN  IF playlistId \notin PlaylistIds
           THEN /\ thrownAt = 0
                /\ playlistCall' = PlaylistCall(op, playlistId, mediaIds, "threw")
                /\ UNCHANGED playlistMediaOrder
           ELSE /\ playlistMediaOrder' = r.table
                /\ playlistCall' =
                     PlaylistCall(op, playlistId, mediaIds,
                                  IF r.threw THEN "threw" ELSE "returned")

NextPlaylists ==
  \E playlistId \in PlaylistRequestIds :
    \/ \E mediaId \in RequestIds, fails \in BOOLEAN :
         addMediaToPlaylist(playlistId, mediaId, fails)
    \/ \E mediaId \in RequestIds, fails \in BOOLEAN :
         removeMediaFromPlaylist(playlistId, mediaId, fails)
    \/ \E mediaIds \in MediaIdLists, thrownAt \in 0..(1 + MaxReorder) :
         reorderPlaylistMedia(playlistId, mediaIds, thrownAt)

SpecPlaylists == InitPlaylists /\ [][NextPlaylists]_vars

\* ------------------------------------------------ FileSystemService: scan
\* The scanned directory holds MaxFiles files; file i has the path i. A file is
\* hidden or not, of a supported type or not, and lies in the directory itself
\* or in its one subdirectory, which may be hidden too.
MaxFiles == 2

MaxScans == 3

\* Line 37: files are inserted in batches of 100, one transaction per batch.
batchSize == 100

FileEntries == [inSubdirectory : BOOLEAN, hidden : BOOLEAN, supported : BOOLEAN]

Directories ==
  [kind : {"directory", "file", "missing"},
   subdirectoryHidden : BOOLEAN,
   files : [1..MaxFiles -> FileEntries]]

\* Lines 116-153: the paths scanDirectory returns.
scanDirectory(recursive) ==
  SelectSeq([i \in 1..MaxFiles |-> i],
            LAMBDA i :
              /\ ~directory.files[i].hidden
              /\ directory.files[i].supported
              /\ directory.files[i].inSubdirectory =>
                   (recursive /\ ~directory.subdirectoryHidden))

\* Mutant of fileExists: the lookup never finds a row.
fileExistsNever(filePath) == FALSE

\* Lines 106-111: SELECT id FROM MediaFiles WHERE file_path = ?.
fileExists(filePath) ==
  \E id \in DOMAIN media : media[id].file_path = filePath

\* The row insertFilesBatch inserts for a file; the id is AUTOINCREMENT.
scannedRow(id, filePath) == newRow(id, FALSE) @@ [file_path |-> filePath]

ScanResult(added, skipped, errors) ==
  [filesAdded |-> added, filesSkipped |-> skipped, errors |-> errors]

\* One batch: the INSERTs run in one transaction, which throws when it fails by
\* itself or when a file_path is already stored (file_path is UNIQUE).
insertBatch(table, batch, fails) ==
  IF fails \/ \E k \in 1..Len(batch) :
                \E id \in DOMAIN table : table[id].file_path = batch[k]
    THEN [inserted |-> 0, table |-> table]
    ELSE [inserted |-> Len(batch),
          table |-> table \o [k \in 1..Len(batch) |-> scannedRow(Len(table) + k, batch[k])]]

\* Lines 158-216: the loop over the batches; insertFails is the set of the batches
\* whose transaction fails by itself.
RECURSIVE insertFilesBatch(_, _, _, _)
insertFilesBatch(table, files, b, insertFails) ==
  IF (b - 1) * batchSize >= Len(files)
    THEN [inserted |-> 0, table |-> table]
    ELSE LET last == IF b * batchSize < Len(files) THEN b * batchSize ELSE Len(files)
             batch == SubSeq(files, (b - 1) * batchSize + 1, last)
             r == insertBatch(table, batch, b \in insertFails)
             rest == insertFilesBatch(r.table, files, b + 1, insertFails)
         IN  [inserted |-> r.inserted + rest.inserted, table |-> rest.table]

ScanCall(recursive, completed, scanResult, rows) ==
  [recursive |-> recursive, completed |-> completed, result |-> scanResult, rows |-> rows]

InitScan ==
  /\ directory \in Directories
  /\ scans = <<>>
  /\ NoMedia
  /\ NoCall
  /\ NoConcurrent
  /\ NoPlaylists

\* Lines 224-302. selectThrowsAt is the file whose fileExists lookup throws (0:
\* none); insertFails are the batches whose transaction fails by itself.
scan(recursive, selectThrowsAt, insertFails) ==
  /\ UNCHANGED <<directory, outsideScan>>
  /\ Len(scans) < MaxScans
  /\ IF directory.kind # "directory"
       THEN /\ selectThrowsAt = 0
            /\ insertFails = {}
            /\ UNCHANGED media
            /\ scans' = Append(scans, ScanCall(recursive, TRUE, ScanResult(0, 0, 1), media))
       ELSE LET files == scanDirectory(recursive)
                checked == IF selectThrowsAt = 0
                             THEN files
                             ELSE SubSeq(files, 1, selectThrowsAt - 1)
                skipped == Len(SelectSeq(checked, fileExists))
                filesToAdd == SelectSeq(files, LAMBDA f : ~fileExists(f))
                r == insertFilesBatch(media, filesToAdd, 1, insertFails)
            IN  /\ selectThrowsAt <= Len(files)
                /\ IF selectThrowsAt # 0
                     THEN /\ insertFails = {}
                          /\ UNCHANGED media
                          /\ scans' = Append(scans,
                               ScanCall(recursive, FALSE, ScanResult(0, skipped, 1), media))
                     ELSE /\ insertFails # {} => Len(filesToAdd) > 0
                          /\ media' = r.table
                          /\ scans' = Append(scans,
                               ScanCall(recursive, insertFails = {},
                                        ScanResult(r.inserted, skipped, 0), r.table))

NextScan ==
  \E recursive \in BOOLEAN, selectThrowsAt \in 0..MaxFiles, insertFails \in SUBSET {1} :
    scan(recursive, selectThrowsAt, insertFails)

SpecScan == InitScan /\ [][NextScan]_vars

\* ------------------------------------------------------------ properties
\* The input record that carries the given id.
recordOf(id) == mediaFiles[CHOOSE i \in 1..Len(mediaFiles) : mediaFiles[i].id = id]

\* The record at output position k (1-based).
outputRecord(k) == recordOf(result[k].id)

resultIds == {result[k].id : k \in 1..Len(result)}

\* The ids the dislike filter is specified to keep.
expectedIds ==
  {mediaFiles[i].id : i \in {j \in 1..Len(mediaFiles) :
                               excludeDisliked => mediaFiles[j].like_count >= 0}}

finished == pc \in {"returned", "threw"}

\* C1: for each of the six strategies and either flag, the ids returned are exactly
\* the ids of the filtered input: same length, none added, omitted or repeated.
C1_PermutationOfFilteredIds ==
  (pc = "returned" /\ algorithm \in Algorithms) =>
    /\ Len(result) = Cardinality(expectedIds)
    /\ resultIds = expectedIds
    /\ \A i, j \in 1..Len(result) : result[i].id = result[j].id => i = j

\* A tie-break strategy has ordered three records of which the filter dropped none.
C1_Witness ==
  /\ pc = "returned"
  /\ algorithm = "most_viewed"
  /\ Len(result) = 3
  /\ result[1].id # mediaFiles[1].id

\* C2: the k-th entry of the returned sequence (from 0) has idx = k.
C2_IdxIsPosition ==
  pc = "returned" => \A k \in 1..Len(result) : result[k].idx = k - 1

C2_Witness ==
  /\ pc = "returned"
  /\ algorithm = "random"
  /\ Len(result) >= 2
  /\ result[2].idx = 1

\* C3: with excludeDisliked = true the output holds exactly the records whose
\* like_count is >= 0, under every strategy.
C3_ExcludesExactlyDisliked ==
  (pc = "returned" /\ algorithm \in Algorithms /\ excludeDisliked) =>
    \A i \in 1..Len(mediaFiles) :
      (mediaFiles[i].id \in resultIds) <=> (mediaFiles[i].like_count >= 0)

\* A record disliked below -1 is dropped; one at 0 and one above 0 are kept.
C3_Witness ==
  /\ pc = "returned"
  /\ excludeDisliked
  /\ algorithm = "least_viewed"
  /\ \E i, j, k \in 1..Len(mediaFiles) :
       /\ mediaFiles[i].like_count < 0 - 1
       /\ mediaFiles[j].like_count = 0
       /\ mediaFiles[k].like_count > 0
       /\ mediaFiles[i].id \notin resultIds
       /\ {mediaFiles[j].id, mediaFiles[k].id} \subseteq resultIds

\* C4: with excludeDisliked = false every input record is in the output, whatever
\* its like_count, and the output is as long as the input.
C4_KeepsDislikedWhenNotExcluding ==
  (pc = "returned" /\ algorithm \in Algorithms /\ ~excludeDisliked) =>
    /\ Len(result) = Len(mediaFiles)
    /\ \A i \in 1..Len(mediaFiles) : mediaFiles[i].id \in resultIds

C4_Witness ==
  /\ pc = "returned"
  /\ ~excludeDisliked
  /\ algorithm = "most_liked"
  /\ \E k \in 1..Len(result) : outputRecord(k).like_count < 0

\* C5: a strategy name outside the six raises an error naming it and returns no
\* output, for every candidate sequence (empty and all-disliked ones included).
C5_UnknownStrategyRaises ==
  (finished /\ algorithm \notin Algorithms) =>
    /\ pc = "threw"
    /\ error = <<"Unknown prioritization algorithm", algorithm>>
    /\ result = <<>>

\* C6: an unknown strategy name is rejected before any computation on the
\* candidate set: a call entered with such a name throws as its first step.
C6_RejectedBeforeAnyWork ==
  [][(pc = "idle" /\ algorithm' \notin Algorithms) => pc' = "threw"]_vars

\* C7: for each of the six strategies, an empty candidate sequence, or one that
\* the dislike filter empties, gives the empty result and no error.
C7_EmptyIsNotAnError ==
  (/\ finished
   /\ algorithm \in Algorithms
   /\ \A i \in 1..Len(mediaFiles) : excludeDisliked /\ mediaFiles[i].like_count < 0) =>
    /\ pc = "returned"
    /\ result = <<>>
    /\ error = <<>>

\* Every record of a non-empty input is disliked and the call has returned.
C7_Witness ==
  /\ pc = "returned"
  /\ algorithm = "oldest_first"
  /\ Len(mediaFiles) >= 2
  /\ excludeDisliked
  /\ \A i \in 1..Len(mediaFiles) : mediaFiles[i].like_count < 0
  /\ result = <<>>

\* C8: under least_viewed the output is ordered by view_count ascending.
C8_LeastViewedAscending ==
  (pc = "returned" /\ algorithm = "least_viewed") =>
    \A i, j \in 1..Len(result) :
      i < j => outputRecord(i).view_count <= outputRecord(j).view_count

\* a is strictly before b in last_viewed ascending order, absent first.
lastViewedBefore(a, b) ==
  \/ (a = Null /\ b # Null)
  \/ (a # Null /\ b # Null /\ a[1] < b[1])

\* C9: under least_viewed two output records with equal view_count and different
\* last_viewed are in last_viewed ascending order, absent before any timestamp.
C9_LeastViewedTieBreak ==
  (pc = "returned" /\ algorithm = "least_viewed") =>
    \A i, j \in 1..Len(result) :
      (/\ i < j
       /\ outputRecord(i).view_count = outputRecord(j).view_count
       /\ outputRecord(i).last_viewed # outputRecord(j).last_viewed) =>
        lastViewedBefore(outputRecord(i).last_viewed, outputRecord(j).last_viewed)

\* C10: under most_liked the output is ordered by like_count descending.
C10_MostLikedDescending ==
  (pc = "returned" /\ algorithm = "most_liked") =>
    \A i, j \in 1..Len(result) :
      i < j => outputRecord(i).like_count >= outputRecord(j).like_count

\* C11: under most_liked two output records with equal like_count and different
\* view_count are in view_count ascending order.
C11_MostLikedTieBreak ==
  (pc = "returned" /\ algorithm = "most_liked") =>
    \A i, j \in 1..Len(result) :
      (/\ i < j
       /\ outputRecord(i).like_count = outputRecord(j).like_count
       /\ outputRecord(i).view_count # outputRecord(j).view_count) =>
        outputRecord(i).view_count < outputRecord(j).view_count

\* C12: under most_viewed the output is ordered by view_count descending.
C12_MostViewedDescending ==
  (pc = "returned" /\ algorithm = "most_viewed") =>
    \A i, j \in 1..Len(result) :
      i < j => outputRecord(i).view_count >= outputRecord(j).view_count

\* C13: under most_viewed two output records with equal view_count and different
\* last_viewed are in last_viewed descending order, absent after every timestamp.
C13_MostViewedTieBreak ==
  (pc = "returned" /\ algorithm = "most_viewed") =>
    \A i, j \in 1..Len(result) :
      (/\ i < j
       /\ outputRecord(i).view_count = outputRecord(j).view_count
       /\ outputRecord(i).last_viewed # outputRecord(j).last_viewed) =>
        lastViewedBefore(outputRecord(j).last_viewed, outputRecord(i).last_viewed)

\* C14: under unviewed_first and oldest_first every output record without
\* last_viewed is at a smaller index than every output record with one.
C14_NeverViewedFirst ==
  (pc = "returned" /\ algorithm \in {"unviewed_first", "oldest_first"}) =>
    \A i, j \in 1..Len(result) :
      (outputRecord(i).last_viewed = Null /\ outputRecord(j).last_viewed # Null) => i < j

\* The input lists a viewed record before a never-viewed one; both are returned.
C14_Witness ==
  /\ pc = "returned"
  /\ algorithm = "unviewed_first"
  /\ Len(mediaFiles) = 3
  /\ Len(result) = 3
  /\ mediaFiles[1].last_viewed # Null
  /\ mediaFiles[3].last_viewed = Null
  /\ result[1].id = mediaFiles[3].id

\* The position in the input of the record that carries the given id.
inputIndex(id) == CHOOSE i \in 1..Len(mediaFiles) : mediaFiles[i].id = id

\* C15: under oldest_first the output records that have a timestamp are in
\* last_viewed ascending order and are not shuffled: records with the same
\* timestamp keep their input order, so this part is fixed by the input.
C15_OldestFirstViewedSorted ==
  (pc = "returned" /\ algorithm = "oldest_first") =>
    \A i, j \in 1..Len(result) :
      (/\ i < j
       /\ outputRecord(i).last_viewed # Null
       /\ outputRecord(j).last_viewed # Null) =>
        \/ outputRecord(i).last_viewed[1] < outputRecord(j).last_viewed[1]
        \/ /\ outputRecord(i).last_viewed = outputRecord(j).last_viewed
           /\ inputIndex(result[i].id) < inputIndex(result[j].id)

\* Three viewed records, the latest first in the input and two sharing a timestamp.
C15_Witness ==
  /\ pc = "returned"
  /\ algorithm = "oldest_first"
  /\ Len(result) = 3
  /\ mediaFiles[1].last_viewed = <<2>>
  /\ mediaFiles[2].last_viewed = <<1>>
  /\ mediaFiles[3].last_viewed = <<1>>
  /\ result[1].id = mediaFiles[2].id
  /\ result[3].id = mediaFiles[1].id

\* Every ordering of the elements of s.
Orderings(s) ==
  {[i \in 1..Len(s) |-> s[p[i]]] :
     p \in {q \in [1..Len(s) -> 1..Len(s)] : \A i, j \in 1..Len(s) : q[i] = q[j] => i = j}}

\* C16: the shuffle of the random strategy is unbiased: distinct sequences of
\* index choices give distinct orderings, every ordering of the filtered set is
\* given by some choice sequence, and with two or more records more than one
\* ordering can be returned.
C16_ShuffleIsBijection ==
  (pc \in {"filtered", "returned"} /\ algorithm = "random" /\ filteredMedia # <<>>) =>
    LET n == Len(filteredMedia) IN
    /\ \A d1, d2 \in ValidDraws(n) :
         ShuffleWith(filteredMedia, d1) = ShuffleWith(filteredMedia, d2) => d1 = d2
    /\ applyAlgorithm(algorithm, filteredMedia) = Orderings(filteredMedia)
    /\ n >= 2 => Cardinality(applyAlgorithm(algorithm, filteredMedia)) >= 2
    /\ pc = "returned" => sortedMedia \in Orderings(filteredMedia)

\* The random strategy has returned three records in the reverse of their input
\* order.
C16_Witness ==
  /\ pc = "returned"
  /\ algorithm = "random"
  /\ Len(mediaFiles) = 3
  /\ Len(result) = 3
  /\ \A k \in 1..3 : result[k].id = mediaFiles[4 - k].id

\* Every ordering of the never-viewed records of s followed by every ordering of
\* its viewed records.
BucketOrderings(s) ==
  {u \o v : u \in Orderings(SelectSeq(s, LAMBDA m : m.last_viewed = Null)),
            v \in Orderings(SelectSeq(s, LAMBDA m : m.last_viewed # Null))}

\* C17: under unviewed_first the possible outputs are exactly the sequences made
\* of any ordering of the never-viewed records followed by any ordering of the
\* viewed records.
C17_BucketsShuffledIndependently ==
  (pc \in {"filtered", "returned"} /\ algorithm = "unviewed_first" /\ filteredMedia # <<>>) =>
    /\ applyAlgorithm(algorithm, filteredMedia) = BucketOrderings(filteredMedia)
    /\ pc = "returned" => sortedMedia \in BucketOrderings(filteredMedia)

\* Two viewed records and one never-viewed record: the never-viewed one is
\* returned first and the viewed ones in the reverse of their input order.
C17_Witness ==
  /\ pc = "returned"
  /\ algorithm = "unviewed_first"
  /\ Len(mediaFiles) = 3
  /\ Len(result) = 3
  /\ mediaFiles[1].last_viewed # Null
  /\ mediaFiles[2].last_viewed # Null
  /\ mediaFiles[3].last_viewed = Null
  /\ \A k \in 1..3 : result[k].id = mediaFiles[4 - k].id

\* The (primary, secondary) sort key of a record under a tie-break strategy.
strategyKey(alg, m) ==
  IF alg = "most_liked" THEN <<m.like_count, m.view_count>>
  ELSE <<m.view_count, m.last_viewed>>

\* The position of record m in the array o.
positionIn(o, m) == CHOOSE k \in 1..Len(o) : o[k] = m

\* C18: for least_viewed, most_liked and most_viewed, the output of this call and
\* the output of any other call on the same input and flag put every pair of
\* records that differ on the primary or secondary key in the same relative order.
C18_NonTiedOrderRepeats ==
  (pc = "returned" /\ algorithm \in {"least_viewed", "most_liked", "most_viewed"}
     /\ filteredMedia # <<>>) =>
    \A other \in applyAlgorithm(algorithm, filteredMedia) :
      \A a, b \in Elements(filteredMedia) :
        strategyKey(algorithm, a) # strategyKey(algorithm, b) =>
          ((positionIn(sortedMedia, a) < positionIn(sortedMedia, b))
             <=> (positionIn(other, a) < positionIn(other, b)))

\* C19: randomize never changes its input: no step of a call, returning or
\* raising, changes the length, the order or a record of the caller's sequence.
C19_InputUnchanged ==
  [][mediaFiles' = mediaFiles]_vars

\* A call that dropped a disliked record and reordered the others has returned,
\* and the caller's sequence still holds its three records in their order.
C19_Witness ==
  /\ pc = "returned"
  /\ algorithm = "oldest_first"
  /\ excludeDisliked
  /\ Len(mediaFiles) = 3
  /\ \A i \in 1..3 : mediaFiles[i].id = 100 * i
  /\ mediaFiles[1].like_count < 0
  /\ mediaFiles[2].last_viewed = <<2>>
  /\ mediaFiles[3].last_viewed = <<1>>
  /\ Len(result) = 2
  /\ result[1].id = 300

\* The outcomes (position, returned array, thrown Error) of a call that runs
\* alone on the sequence s with the strategy name alg and the flag exclude.
aloneOutcomes(s, alg, exclude) ==
  LET f == filterDisliked(s, exclude)
  IN  IF f = <<>>
        THEN {[pc |-> "returned", result |-> <<>>, error |-> <<>>]}
        ELSE IF alg \in Algorithms
          THEN {[pc |-> "returned", result |-> mapResult(o), error |-> <<>>] :
                  o \in applyAlgorithm(alg, f)}
          ELSE {[pc |-> "threw", result |-> <<>>,
                 error |-> <<"Unknown prioritization algorithm", alg>>]}

outcomeOf(c) ==
  [pc |-> frames[c].pc, result |-> frames[c].result, error |-> frames[c].error]

\* C20: two calls on the shared instance interleaved step by step: a call that
\* is under way works on the filtered copy of its own input, and a call that has
\* finished has an outcome it could have had running alone, its returned ids
\* being those of its own filtered input.
C20_CallsDoNotInterfere ==
  \A c \in Callers :
    LET own == filterDisliked(frames[c].mediaFiles, frames[c].excludeDisliked)
    IN  /\ frames[c].pc = "filtered" => locals[slot(c)].filteredMedia = own
        /\ frames[c].pc \in {"returned", "threw"} =>
              outcomeOf(c) \in
                aloneOutcomes(frames[c].mediaFiles, frames[c].algorithm,
                              frames[c].excludeDisliked)
        /\ frames[c].pc = "returned" =>
              {frames[c].result[k].id : k \in 1..Len(frames[c].result)}
                = {own[k].id : k \in 1..Len(own)}

\* One caller entered its call while the other was between its filter and its
\* strategy; both have returned, caller 1 its two records reordered and caller 2
\* its one record that is not disliked.
C20_Witness ==
  /\ overlap
  /\ frames[1].pc = "returned"
  /\ frames[2].pc = "returned"
  /\ frames[1].algorithm = "unviewed_first"
  /\ frames[2].algorithm = "most_liked"
  /\ frames[2].excludeDisliked
  /\ Len(frames[1].mediaFiles) = 2
  /\ Len(frames[2].mediaFiles) = 2
  /\ frames[1].result = <<[id |-> 201, idx |-> 0], [id |-> 101, idx |-> 1]>>
  /\ frames[2].result = <<[id |-> 202, idx |-> 0]>>

\* C21: a call that leaves out both optional arguments runs the "random"
\* strategy with disliked records excluded: the arrays it can return are all the
\* orderings of the records with like_count >= 0, the same as those of a call
\* that passes "random" and true.
C21_OmittedArgumentsDefault ==
  (pc # "idle" /\ passed = <<Undefined, Undefined>>) =>
    LET kept == SelectSeq(mediaFiles, LAMBDA m : m.like_count >= 0)
    IN  /\ algorithm = "random"
        /\ excludeDisliked = TRUE
        /\ filteredMedia = kept
        /\ {o.result : o \in aloneOutcomes(mediaFiles, algorithm, excludeDisliked)}
             = {mapResult(o) : o \in Orderings(kept)}
        /\ aloneOutcomes(mediaFiles, algorithm, excludeDisliked)
             = aloneOutcomes(mediaFiles, "random", TRUE)
        /\ pc = "returned" => result \in {mapResult(o) : o \in Orderings(kept)}

\* A call without optional arguments on three records, the second disliked, has
\* returned the two others in the order opposite to the input.
C21_Witness ==
  /\ pc = "returned"
  /\ passed = <<Undefined, Undefined>>
  /\ Len(mediaFiles) = 3
  /\ mediaFiles[1].like_count >= 0
  /\ mediaFiles[2].like_count < 0
  /\ mediaFiles[3].like_count >= 0
  /\ result = <<[id |-> 300, idx |-> 0], [id |-> 100, idx |-> 1]>>

\* C23: after a successful setDislike on an existing, non-deleted item its stored
\* like_count is -1 whatever it was before, and the call reports like_count -1.
C23_DislikeStoresMinusOne ==
  (response.op = "setDislike" /\ response.status = 200) =>
    /\ selected # <<>>
    /\ selected[1].id = response.id
    /\ ~media[response.id].is_deleted
    /\ media[response.id].like_count = 0 - 1
    /\ response.data = 0 - 1

\* setDislike has succeeded on an item that had two likes.
C23_Witness ==
  /\ response.op = "setDislike"
  /\ response.status = 200
  /\ selected # <<>>
  /\ selected[1].like_count = 2
  /\ media[response.id].like_count = 0 - 1

\* The candidates the query layer passes to randomize: the rows that are not
\* deleted.
mediaListing ==
  SelectSeq([i \in 1..MaxRows |-> media[i]], LAMBDA m : ~m.is_deleted)

omittedWhenExcluding(id) ==
  \A alg \in Algorithms :
    \A o \in aloneOutcomes(mediaListing, alg, TRUE) :
      \A k \in 1..Len(o.result) : o.result[k].id # id

C29_ViewCountMatchesHistory ==
  \A id \in MediaIds :
    /\ media[id].view_count = viewHistory[id]
    /\ (media[id].last_viewed # Null) <=> (media[id].view_count > 0)
    /\ (media[id].last_viewed = Null) <=> (viewHistory[id] = 0)

\* C24: after any sequence of addMediaToPlaylist, removeMediaFromPlaylist and
\* reorderPlaylistMedia calls, returning or throwing, no playlist has two entries
\* with the same media id or two entries with the same sort_order.
C24_PlaylistEntriesUnique ==
  \A p \in PlaylistIds :
    \A r1, r2 \in entriesOf(playlistMediaOrder, p) :
      (r1.media_id = r2.media_id \/ r1.sort_order = r2.sort_order) => r1 = r2

\* Media 1 was removed from playlist 1 and added again behind media 2, after
\* which a reorder that repeats a media id has thrown.
C24_Witness ==
  /\ playlistCall = PlaylistCall("reorderPlaylistMedia", 1, <<1, 1>>, "threw")
  /\ entriesOf(playlistMediaOrder, 1) = {OrderRow(1, 2, 1), OrderRow(1, 1, 2)}

strategyCompare(alg, a, b) ==
  LET primary == IF alg = "least_viewed" THEN a.view_count - b.view_count
                 ELSE IF alg = "most_liked" THEN b.like_count - a.like_count
                 ELSE b.view_count - a.view_count
      secondary == IF alg = "least_viewed" THEN compareDates(a.last_viewed, b.last_viewed)
                   ELSE IF alg = "most_liked" THEN a.view_count - b.view_count
                   ELSE 0 - compareDates(a.last_viewed, b.last_viewed)
  IN  IF primary # 0 THEN primary ELSE secondary

\* C26: in sortWithTieBreaker the shuffle stays within ties: every group that is
\* shuffled holds only records that compare equal under both comparators, and
\* no returned record stands behind a record that sorts after it.
C26_ShuffleOnlyWithinTies ==
  (pc = "returned" /\ algorithm \in {"least_viewed", "most_liked", "most_viewed"}) =>
    LET sortedGroups ==
          sort(filteredMedia,
               [a, b \in Elements(filteredMedia) |-> strategyCompare(algorithm, a, b)])
        groups == finalGroups(sortedGroups)
    IN  /\ \A g \in 1..Len(groups) :
             \A a, b \in Elements(groups[g]) : strategyCompare(algorithm, a, b) = 0
        /\ \A a, b \in Elements(sortedMedia) :
             strategyCompare(algorithm, a, b) < 0 =>
               positionIn(sortedMedia, a) < positionIn(sortedMedia, b)

====
